---- MODULE Spec2Model ----
(***************************************************************************)
(* Model of rope-rs (src/src/main.rs): a Verlet rope whose head follows    *)
(* the mouse, enemies that seek the head, points that are picked up, and   *)
(* the frame loop that drives them.                                        *)
(*                                                                         *)
(* Numbers.  The program computes in f32.  Here a number is an integer     *)
(* count of 1/Scale units, or NaN.  Every float expression of the source   *)
(* is evaluated exactly and rounded once, toward zero, to that grid; a     *)
(* division by a zero length gives NaN as it does in IEEE arithmetic       *)
(* (0 * inf), NaN propagates through arithmetic, and every comparison      *)
(* with NaN is false.                                                      *)
(***************************************************************************)
EXTENDS Integers, Sequences, FiniteSets, TLC

\* ---------------------------------------------------------------- bounds
Scale == 100
MaxFrames == 3
MaxEnemies == 2
MaxPoints == 1
MaxTicks == 6

\* ------------------------------------------------------ program constants
NUM_PARTICLES == 10
ROPE_BALL_RADIUS == 7
SEGMENT_LENGTH == 10
CONSTRAINT_ITERATIONS == 8
TIME_STEP_NUM == 16
TIME_STEP_DEN == 1000
FRICTION_NUM == 98
FRICTION_DEN == 100
SUBSTEPS == 5
LERP_DEN == 2
ENEMY_SPEED == 7
ENEMY_RADIUS == 10
MAX_POINTS == 20
POINT_RADIUS == 5
RECTANGLE_WIDTH == 800
RECTANGLE_HEIGHT == 600
ROPE_START_X == 0
ROPE_START_Y == 100

\* macroquad's window: screen_width() and screen_height() of the default
\* configuration, which is the size of the arena rectangle.
screen_width == RECTANGLE_WIDTH
screen_height == RECTANGLE_HEIGHT

\* ------------------------------------------------------------ arithmetic
NaN == -(10 * 1000 * 1000 * 100)

IsNaN(a) == a = NaN

Abs(a) == IF a < 0 THEN -a ELSE a

\* Division rounding toward zero.
TDiv(a, b) ==
  IF (a >= 0) = (b > 0) THEN Abs(a) \div Abs(b) ELSE -(Abs(a) \div Abs(b))

FAdd(a, b) == IF IsNaN(a) \/ IsNaN(b) THEN NaN ELSE a + b
FSub(a, b) == IF IsNaN(a) \/ IsNaN(b) THEN NaN ELSE a - b
\* a * num / den
FMulDiv(a, num, den) ==
  IF IsNaN(a) \/ IsNaN(num) \/ IsNaN(den) \/ den = 0 THEN NaN
  ELSE TDiv(a * num, den)
FLt(a, b) == ~IsNaN(a) /\ ~IsNaN(b) /\ a < b
FLe(a, b) == ~IsNaN(a) /\ ~IsNaN(b) /\ a <= b
FGt(a, b) == FLt(b, a)
FGe(a, b) == FLe(b, a)

\* Vec2
Vec(x, y) == <<x * Scale, y * Scale>>
VAdd(u, v) == <<FAdd(u[1], v[1]), FAdd(u[2], v[2])>>
VSub(u, v) == <<FSub(u[1], v[1]), FSub(u[2], v[2])>>
VMulDiv(u, num, den) == <<FMulDiv(u[1], num, den), FMulDiv(u[2], num, den)>>
VFinite(u) == ~IsNaN(u[1]) /\ ~IsNaN(u[2])
\* Vec2's PartialEq: componentwise f32 ==, false on NaN.
VEq(u, v) == VFinite(u) /\ VFinite(v) /\ u = v

RECURSIVE SqrtIter(_, _, _)
SqrtIter(n, lo, hi) ==
  IF lo >= hi THEN lo
  ELSE LET mid == (lo + hi + 1) \div 2
       IN  IF mid * mid <= n THEN SqrtIter(n, mid, hi)
           ELSE SqrtIter(n, lo, mid - 1)

\* Vec2::length
Length(u) ==
  IF ~VFinite(u) THEN NaN
  ELSE LET ax == Abs(u[1])
           ay == Abs(u[2])
           hi == IF ax + ay > 46340 THEN 46340 ELSE ax + ay
       IN  SqrtIter(ax * ax + ay * ay, IF ax > ay THEN ax ELSE ay, hi)

\* ---------------------------------------------------------------- Particle
ParticleNew(pos) == [position |-> pos, old_position |-> pos]

\* Faulty variant: the position is never advanced by the velocity.
ParticleUpdateNoVelocity(p) ==
  [position |-> p.position, old_position |-> p.position]

ParticleUpdate(p) ==
  LET velocity == VMulDiv(VSub(p.position, p.old_position),
                          FRICTION_NUM, FRICTION_DEN)
  IN  [position |-> VAdd(p.position, velocity), old_position |-> p.position]

\* -------------------------------------------------------------------- Rope
RopeNew(start) ==
  [i \in 1..NUM_PARTICLES |->
     ParticleNew(VAdd(start, <<(i - 1) * SEGMENT_LENGTH * Scale, 0>>))]

\* Faulty variant: the correction is not divided by SUBSTEPS.
RelaxOffsetUnscaled(delta, delta_length) ==
  IF IsNaN(delta_length) \/ delta_length = 0 THEN <<NaN, NaN>>
  ELSE VMulDiv(delta, delta_length - SEGMENT_LENGTH * Scale, delta_length * 2)

\* offset = delta * ((delta_length - SEGMENT_LENGTH) / delta_length) * 0.5 / SUBSTEPS
RelaxOffset(delta, delta_length) ==
  IF IsNaN(delta_length) \/ delta_length = 0 THEN <<NaN, NaN>>
  ELSE VMulDiv(delta, delta_length - SEGMENT_LENGTH * Scale,
               delta_length * 2 * SUBSTEPS)

\* Faulty variant: the `if i != 0` guard is missing, so the head is corrected too.
RelaxStepMovesHead(ps, i) ==
  LET delta == VSub(ps[i + 2].position, ps[i + 1].position)
      offset == RelaxOffset(delta, Length(delta))
  IN  [ps EXCEPT ![i + 1].position = VAdd(@, offset),
                 ![i + 2].position = VSub(@, offset)]

\* One pass of the inner loop body for the pair (i, i + 1), i counted from 0.
RelaxStep(ps, i) ==
  LET particle_a == ps[i + 1]
      particle_b == ps[i + 2]
      delta == VSub(particle_b.position, particle_a.position)
      offset == RelaxOffset(delta, Length(delta))
      moved_a == IF i # 0
                 THEN [ps EXCEPT ![i + 1].position = VAdd(@, offset)]
                 ELSE ps
  IN  [moved_a EXCEPT ![i + 2].position = VSub(@, offset)]

RECURSIVE RelaxSweep(_, _)
RelaxSweep(ps, i) ==
  IF i >= Len(ps) - 1 THEN ps ELSE RelaxSweep(RelaxStep(ps, i), i + 1)

RECURSIVE RelaxIterations(_, _)
RelaxIterations(ps, k) ==
  IF k = 0 THEN ps ELSE RelaxIterations(RelaxSweep(ps, 0), k - 1)

RopeUpdate(ps, tgt) ==
  LET pinned == [ps EXCEPT ![1].position = tgt]
      relaxed == RelaxIterations(pinned, CONSTRAINT_ITERATIONS)
  IN  [i \in 1..Len(ps) |->
         IF i = 1 THEN relaxed[i] ELSE ParticleUpdate(relaxed[i])]

\* ------------------------------------------------------------------- arena
XMin == TDiv((screen_width - RECTANGLE_WIDTH) * Scale, 2)
XMax == TDiv((screen_width + RECTANGLE_WIDTH) * Scale, 2)
YMin == TDiv((screen_height - RECTANGLE_HEIGHT) * Scale, 2)
YMax == TDiv((screen_height + RECTANGLE_HEIGHT) * Scale, 2)

\* Faulty variant: the rectangle's edges count as outside.
is_in_frame_strict(particle) ==
  LET x == particle.position[1]
      y == particle.position[2]
  IN  FGt(x, XMin) /\ FLt(x, XMax) /\ FGt(y, YMin) /\ FLt(y, YMax)

is_in_frame(particle) ==
  LET x == particle.position[1]
      y == particle.position[2]
  IN  FGe(x, XMin) /\ FLe(x, XMax) /\ FGe(y, YMin) /\ FLe(y, YMax)

\* ------------------------------------------------------------------- Enemy
EnemyNew(pos) == [particle |-> ParticleNew(pos), active |-> TRUE]

\* step = direction.normalize() * ENEMY_SPEED * TIME_STEP
SeekStep(direction, distance) ==
  VMulDiv(direction, ENEMY_SPEED * TIME_STEP_NUM * Scale,
          distance * TIME_STEP_DEN)

EnemyUpdate(e, tgt) ==
  LET direction == VSub(tgt, e.particle.position)
      distance == Length(direction)
      stepped == IF FGt(distance, 0)
                 THEN [e.particle EXCEPT
                         !.position = VAdd(@, SeekStep(direction, distance))]
                 ELSE e.particle
      integrated == ParticleUpdate(stepped)
  IN  [particle |-> integrated,
       active |-> IF ~is_in_frame(integrated) THEN FALSE ELSE e.active]

\* ------------------------------------------------------------------- Point
PointNew(pos) == [position |-> pos, active |-> TRUE]

\* -------------------------------------------------------- check_collisions
\* Faulty variant: dist is not normalized.
OverlapOffsetUnnormalized(dist, len, radius_sum) ==
  VMulDiv(dist, FSub(radius_sum * Scale, len), Scale)

\* offset = (radius_sum - len) * dist.normalize()
OverlapOffset(dist, len, radius_sum) ==
  VMulDiv(dist, FSub(radius_sum * Scale, len), len)

\* Faulty variant: the comparison is with the head as it is now, not the snapshot.
GameOverTestCurrentHead(ps, i, particle_0) ==
  VEq(ps[i].position, ps[1].position)

\* particle.position == particle_0.position, for particle i (from 1) of ps
GameOverTest(ps, i, particle_0) == VEq(ps[i].position, particle_0.position)

\* The body of `for enemy in enemies.iter_mut()` for rope particle i and
\* enemy j.  st.hits logs, for each execution of the body, whether the pair
\* overlapped and whether the rope particle then sat on the head snapshot.
CollideEnemy(st, particle_0, i, j) ==
  LET dist == VSub(st.enemies[j].particle.position, st.rope[i].position)
      len == Length(dist)
      overlap == FLt(len, (ROPE_BALL_RADIUS + ENEMY_RADIUS) * Scale)
      half == VMulDiv(OverlapOffset(dist, len, ROPE_BALL_RADIUS + ENEMY_RADIUS),
                      1, 2)
      moved == [st.rope EXCEPT ![i].position = VSub(@, half)]
      on_head(ps) == VEq(ps[i].position, particle_0.position)
  IN  IF overlap
      THEN [st EXCEPT !.enemies[j].particle.position = VAdd(@, half),
                      !.rope = moved,
                      !.game_over = @ \/ GameOverTest(moved, i, particle_0),
                      !.hits = @ \cup {<<TRUE, on_head(moved)>>}]
      ELSE [st EXCEPT !.hits = @ \cup {<<FALSE, on_head(st.rope)>>}]

\* The body of `for point in points.iter_mut()` for rope particle i, point k.
CollidePoint(st, i, k) ==
  LET dist == VSub(st.points[k].position, st.rope[i].position)
      len == Length(dist)
  IN  IF FLt(len, (POINT_RADIUS + ENEMY_RADIUS) * Scale)
      THEN [st EXCEPT !.points[k].active = FALSE, !.score = @ + 1]
      ELSE st

RECURSIVE CollideEnemies(_, _, _, _)
CollideEnemies(st, particle_0, i, j) ==
  IF j > Len(st.enemies) THEN st
  ELSE CollideEnemies(CollideEnemy(st, particle_0, i, j), particle_0, i, j + 1)

RECURSIVE CollidePoints(_, _, _)
CollidePoints(st, i, k) ==
  IF k > Len(st.points) THEN st
  ELSE CollidePoints(CollidePoint(st, i, k), i, k + 1)

RECURSIVE CollideParticles(_, _, _)
CollideParticles(st, particle_0, i) ==
  IF i > Len(st.rope) THEN st
  ELSE CollideParticles(
         CollidePoints(CollideEnemies(st, particle_0, i, 1), i, 1),
         particle_0, i + 1)

RECURSIVE CollidePasses(_, _)
CollidePasses(st, n) ==
  IF n = 0 THEN st
  ELSE CollidePasses(CollideParticles(st, st.rope[1], 1), n - 1)

check_collisions(st) == CollidePasses(st, SUBSTEPS)

\* -------------------------------------------------- check_enemy_collisions
EnemyPair(es, i, j) ==
  LET dist == VSub(es[j].particle.position, es[i].particle.position)
      len == Length(dist)
      half == VMulDiv(OverlapOffset(dist, len, ENEMY_RADIUS * 2), 1, 2)
  IN  IF FLt(len, ENEMY_RADIUS * 2 * Scale)
      THEN [es EXCEPT ![i].particle.position = VSub(@, half),
                      ![j].particle.position = VAdd(@, half)]
      ELSE es

RECURSIVE EnemyInner(_, _, _)
EnemyInner(es, i, j) ==
  IF j > Len(es) THEN es ELSE EnemyInner(EnemyPair(es, i, j), i, j + 1)

RECURSIVE EnemyOuter(_, _)
EnemyOuter(es, i) ==
  IF i > Len(es) THEN es ELSE EnemyOuter(EnemyInner(es, i, i + 1), i + 1)

check_enemy_collisions(es) == EnemyOuter(es, 1)

\* ------------------------------------------------------------------ inputs
\* mouse_position(): the positions the pointer takes in the modelled runs.
MousePositions == {Vec(20, 100), Vec(0, 108)}

\* Enemy::new: positions on the arena's left edge.
EnemySpawns == {<<XMin, 110 * Scale>>, <<XMin, 116 * Scale>>}

\* Point::new: a position inside the arena.
PointSpawns == {Vec(5, 100)}

\* -------------------------------------------------------------------- state
VARIABLES
  rope,        \* Rope.particles
  enemies,     \* Vec<Enemy>
  points,      \* Vec<Point>
  score,
  game_over,
  target,      \* main's `target` of the current frame
  pc,          \* the position in main (or in a unit specification)
  sub,         \* the substep counter of main's `for _ in 0..SUBSTEPS`
  frame,       \* frames started (ticks or iterations, in the unit specifications)
  hits,        \* log of the last check_collisions call (see CollideEnemy)
  ran,         \* how often each stage has run in the current frame
  mark         \* measurements of the enemy's advance (SpecEnemy)

vars == <<rope, enemies, points, score, game_over, target, pc, sub, frame,
          hits, ran, mark>>

NoneRan ==
  [rope |-> 0, collide |-> 0, enemy_collide |-> 0, seek |-> 0,
   integrate |-> 0, compact |-> 0]

NoMark == [start |-> 0, adv |-> 0, prev |-> 0]

Init ==
  /\ rope = RopeNew(Vec(ROPE_START_X, ROPE_START_Y))
  /\ enemies = <<>>
  /\ points = <<>>
  /\ score = 0
  /\ game_over = FALSE
  /\ target = Vec(ROPE_START_X, ROPE_START_Y)
  /\ pc = "input"
  /\ sub = 0
  /\ frame = 1
  /\ hits = {}
  /\ ran = NoneRan
  /\ mark = NoMark

\* Faulty variant: each substep resolves collisions before it relaxes the rope.
MainNextCollideFirst(at, s) ==
  CASE at = "input" -> "collide"
    [] at = "collide" -> "enemy_collide"
    [] at = "enemy_collide" -> "rope"
    [] at = "rope" -> IF s < SUBSTEPS THEN "collide" ELSE "spawn_enemy"
    [] at = "spawn_enemy" -> "spawn_point"
    [] at = "spawn_point" -> "seek"
    [] at = "seek" -> "integrate"
    [] at = "integrate" -> "compact"
    [] at = "compact" -> "frame_end"

\* main's control flow: the stage that follows stage `at` when `s` substeps
\* of the frame are complete.
MainNext(at, s) ==
  CASE at = "input" -> "rope"
    [] at = "rope" -> "collide"
    [] at = "collide" -> "enemy_collide"
    [] at = "enemy_collide" -> IF s < SUBSTEPS THEN "rope" ELSE "spawn_enemy"
    [] at = "spawn_enemy" -> "spawn_point"
    [] at = "spawn_point" -> "seek"
    [] at = "seek" -> "integrate"
    [] at = "integrate" -> "compact"
    [] at = "compact" -> "frame_end"

\* Faulty variant: the loop never breaks.
LoopNeverBreaks(flag) == FALSE

\* if game_over { break; }
LoopBreaks(flag) == flag

\* let target = head + (mouse_position - head) * LERP_FACTOR
FrameStart ==
  /\ pc = "input"
  /\ \E mouse \in MousePositions :
       target' = VAdd(rope[1].position,
                      VMulDiv(VSub(mouse, rope[1].position), 1, LERP_DEN))
  /\ pc' = MainNext(pc, 0)
  /\ sub' = 0
  /\ ran' = NoneRan
  /\ UNCHANGED <<rope, enemies, points, score, game_over, frame, hits, mark>>

RopeStep ==
  /\ pc = "rope"
  /\ rope' = RopeUpdate(rope, target)
  /\ ran' = [ran EXCEPT !.rope = @ + 1]
  /\ pc' = MainNext(pc, sub)
  /\ UNCHANGED <<enemies, points, score, game_over, target, sub, frame, hits,
                 mark>>

CollideStep ==
  /\ pc = "collide"
  /\ LET st == check_collisions([rope |-> rope, enemies |-> enemies,
                                 points |-> points, score |-> score,
                                 game_over |-> game_over, hits |-> {}])
     IN  /\ rope' = st.rope
         /\ enemies' = st.enemies
         /\ points' = st.points
         /\ score' = st.score
         /\ game_over' = st.game_over
         /\ hits' = st.hits
  /\ ran' = [ran EXCEPT !.collide = @ + 1]
  /\ pc' = MainNext(pc, sub)
  /\ UNCHANGED <<target, sub, frame, mark>>

EnemyCollideStep ==
  /\ pc = "enemy_collide"
  /\ enemies' = check_enemy_collisions(enemies)
  /\ ran' = [ran EXCEPT !.enemy_collide = @ + 1]
  /\ sub' = sub + 1
  /\ pc' = MainNext(pc, sub + 1)
  /\ UNCHANGED <<rope, points, score, game_over, target, frame, hits, mark>>

\* last_spawn_time.elapsed() >= ENEMY_SPAWN_INTERVAL: wall-clock time, so
\* either outcome is possible in any frame.
SpawnEnemy ==
  /\ pc = "spawn_enemy"
  /\ Len(enemies) < MaxEnemies
  /\ \E pos \in EnemySpawns : enemies' = Append(enemies, EnemyNew(pos))
  /\ pc' = MainNext(pc, sub)
  /\ UNCHANGED <<rope, points, score, game_over, target, sub, frame, hits, ran,
                 mark>>

NoSpawnEnemy ==
  /\ pc = "spawn_enemy"
  /\ pc' = MainNext(pc, sub)
  /\ UNCHANGED <<rope, enemies, points, score, game_over, target, sub, frame,
                 hits, ran, mark>>

SpawnPoint ==
  /\ pc = "spawn_point"
  /\ Len(points) < MAX_POINTS
  /\ Len(points) < MaxPoints
  /\ \E pos \in PointSpawns : points' = Append(points, PointNew(pos))
  /\ pc' = MainNext(pc, sub)
  /\ UNCHANGED <<rope, enemies, score, game_over, target, sub, frame, hits, ran,
                 mark>>

NoSpawnPoint ==
  /\ pc = "spawn_point"
  /\ pc' = MainNext(pc, sub)
  /\ UNCHANGED <<rope, enemies, points, score, game_over, target, sub, frame,
                 hits, ran, mark>>

\* for enemy in &mut enemies { enemy.update(rope.particles[0].position); }
SeekStage ==
  /\ pc = "seek"
  /\ enemies' = [j \in 1..Len(enemies) |->
                   EnemyUpdate(enemies[j], rope[1].position)]
  /\ ran' = [ran EXCEPT !.seek = @ + 1]
  /\ pc' = MainNext(pc, sub)
  /\ UNCHANGED <<rope, points, score, game_over, target, sub, frame, hits, mark>>

\* for enemy in &mut enemies { enemy.particle.update(); }
IntegrateStage ==
  /\ pc = "integrate"
  /\ enemies' = [j \in 1..Len(enemies) |->
                   [enemies[j] EXCEPT !.particle = ParticleUpdate(@)]]
  /\ ran' = [ran EXCEPT !.integrate = @ + 1]
  /\ pc' = MainNext(pc, sub)
  /\ UNCHANGED <<rope, points, score, game_over, target, sub, frame, hits, mark>>

IsActive(x) == x.active

\* points.retain(|point| point.active); enemies.retain(|enemy| enemy.active);
Compact ==
  /\ pc = "compact"
  /\ points' = SelectSeq(points, IsActive)
  /\ enemies' = SelectSeq(enemies, IsActive)
  /\ ran' = [ran EXCEPT !.compact = @ + 1]
  /\ pc' = MainNext(pc, sub)
  /\ UNCHANGED <<rope, score, game_over, target, sub, frame, hits, mark>>

GameOverExit ==
  /\ pc = "frame_end"
  /\ LoopBreaks(game_over)
  /\ pc' = "done"
  /\ UNCHANGED <<rope, enemies, points, score, game_over, target, sub, frame,
                 hits, ran, mark>>

\* next_frame().await
NextFrame ==
  /\ pc = "frame_end"
  /\ ~LoopBreaks(game_over)
  /\ frame < MaxFrames
  /\ frame' = frame + 1
  /\ pc' = "input"
  /\ UNCHANGED <<rope, enemies, points, score, game_over, target, sub, hits,
                 ran, mark>>

Next ==
  \/ FrameStart
  \/ RopeStep
  \/ CollideStep
  \/ EnemyCollideStep
  \/ SpawnEnemy
  \/ NoSpawnEnemy
  \/ SpawnPoint
  \/ NoSpawnPoint
  \/ SeekStage
  \/ IntegrateStage
  \/ Compact
  \/ GameOverExit
  \/ NextFrame

Spec == Init /\ [][Next]_vars

\* ------------------------------------------------------------------------
\* Unit specification: the relaxation step on a two-particle chain (a head
\* and one adjacent particle), one iteration of Rope::update's outer loop
\* per step.
\* ------------------------------------------------------------------------
RelaxSeparations ==
  ({<<dx * Scale, dy * Scale>> :
      dx \in {-40, -7, 0, 3, 10, 25}, dy \in {-25, 0, 4, 10, 30}}
   \cup {<<1, 0>>, <<0, -50>>, <<30, 40>>}) \ {<<0, 0>>}

InitRelax ==
  /\ \E d \in RelaxSeparations :
       rope = <<ParticleNew(Vec(ROPE_START_X, ROPE_START_Y)),
                ParticleNew(VAdd(Vec(ROPE_START_X, ROPE_START_Y), d))>>
  /\ enemies = <<>>
  /\ points = <<>>
  /\ score = 0
  /\ game_over = FALSE
  /\ target = Vec(ROPE_START_X, ROPE_START_Y)
  /\ pc = "relax"
  /\ sub = 0
  /\ frame = 0
  /\ hits = {}
  /\ ran = NoneRan
  /\ mark = NoMark

RelaxIteration ==
  /\ pc = "relax"
  /\ frame < CONSTRAINT_ITERATIONS
  /\ rope' = RelaxSweep(rope, 0)
  /\ frame' = frame + 1
  /\ UNCHANGED <<enemies, points, score, game_over, target, pc, sub, hits, ran,
                 mark>>

NextRelax == RelaxIteration

SpecRelax == InitRelax /\ [][NextRelax]_vars

\* ------------------------------------------------------------------------
\* Unit specification: one resolution pass over two overlapping bodies: a
\* rope particle and an enemy (check_collisions), or two enemies
\* (check_enemy_collisions).
\* ------------------------------------------------------------------------
PairRopeStart == Vec(100, 100)

PairOffsets ==
  {<<dx * Scale, dy * Scale>> :
     dx \in {-16, -12, -9, -3, 0, 1, 5, 9, 12, 16},
     dy \in {-16, -15, -14, -12, 0, 7, 12, 14, 15, 16}} \ {<<0, 0>>}

\* The rope particles within reach of a body at pos.
Touching(ps, pos) ==
  {i \in 1..Len(ps) :
     FLt(Length(VSub(pos, ps[i].position)),
         (ROPE_BALL_RADIUS + ENEMY_RADIUS) * Scale)}

InitPair ==
  /\ rope = RopeNew(PairRopeStart)
  /\ points = <<>>
  /\ score = 0
  /\ game_over = FALSE
  /\ target = PairRopeStart
  /\ sub = 0
  /\ frame = 0
  /\ hits = {}
  /\ ran = NoneRan
  /\ mark = NoMark
  /\ \/ /\ pc = "pair"
        /\ \E k \in {1, 5, NUM_PARTICLES} : \E off \in PairOffsets :
             /\ Touching(rope, VAdd(rope[k].position, off)) = {k}
             /\ enemies = <<EnemyNew(VAdd(rope[k].position, off))>>
     \/ /\ pc = "enemy_pair"
        /\ \E off \in PairOffsets :
             /\ FLt(Length(off), ENEMY_RADIUS * 2 * Scale)
             /\ enemies = <<EnemyNew(Vec(300, 300)),
                            EnemyNew(VAdd(Vec(300, 300), off))>>

PairResolve ==
  /\ pc = "pair"
  /\ LET st == check_collisions([rope |-> rope, enemies |-> enemies,
                                 points |-> points, score |-> score,
                                 game_over |-> game_over, hits |-> {}])
     IN  /\ rope' = st.rope
         /\ enemies' = st.enemies
         /\ game_over' = st.game_over
         /\ hits' = st.hits
  /\ pc' = "pair_done"
  /\ UNCHANGED <<points, score, target, sub, frame, ran, mark>>

EnemyPairResolve ==
  /\ pc = "enemy_pair"
  /\ enemies' = check_enemy_collisions(enemies)
  /\ pc' = "enemy_pair_done"
  /\ UNCHANGED <<rope, points, score, game_over, target, sub, frame, hits, ran,
                 mark>>

NextPair ==
  \/ PairResolve
  \/ EnemyPairResolve

SpecPair == InitPair /\ [][NextPair]_vars

\* ------------------------------------------------------------------------
\* Unit specification: one enemy that starts at rest and seeks a fixed rope
\* head, with no collision: main's two enemy loops, once per tick.
\* ------------------------------------------------------------------------
\* Enemy::new: positions on the arena's left and top edges.
EnemyStarts ==
  {<<XMin, 300 * Scale>>, <<XMin, 450 * Scale>>, <<XMin, 517 * Scale>>,
   <<40 * Scale, YMin>>, <<123 * Scale, YMin>>, <<200 * Scale, YMin>>,
   <<300 * Scale, YMin>>, <<410 * Scale, YMin>>}

HeadDistance == Length(VSub(rope[1].position, enemies[1].particle.position))

InitEnemy ==
  /\ rope = RopeNew(Vec(ROPE_START_X, ROPE_START_Y))
  /\ \E s \in EnemyStarts :
       /\ enemies = <<EnemyNew(s)>>
       /\ mark = [start |-> Length(VSub(Vec(ROPE_START_X, ROPE_START_Y), s)),
                  adv |-> 0, prev |-> 0]
  /\ points = <<>>
  /\ score = 0
  /\ game_over = FALSE
  /\ target = Vec(ROPE_START_X, ROPE_START_Y)
  /\ pc = "seek"
  /\ sub = SUBSTEPS
  /\ frame = 0
  /\ hits = {}
  /\ ran = NoneRan

TickEnd ==
  /\ pc = "compact"
  /\ frame < MaxTicks
  /\ frame' = frame + 1
  /\ mark' = [start |-> HeadDistance, adv |-> mark.start - HeadDistance,
              prev |-> mark.adv]
  /\ ran' = NoneRan
  /\ pc' = "seek"
  /\ UNCHANGED <<rope, enemies, points, score, game_over, target, sub, hits>>

NextEnemy ==
  \/ SeekStage
  \/ IntegrateStage
  \/ TickEnd

SpecEnemy == InitEnemy /\ [][NextEnemy]_vars

\* ========================================================================
\* Properties
\* ========================================================================
Near(a, b, tol) == ~IsNaN(a) /\ ~IsNaN(b) /\ Abs(a - b) <= tol

AllFinite ==
  /\ \A i \in 1..Len(rope) : VFinite(rope[i].position)
  /\ \A j \in 1..Len(enemies) : VFinite(enemies[j].particle.position)

\* C1: a point in reach of the rope is deactivated and raises the score by
\* exactly 1 in total: every check_collisions call raises the score by the
\* number of points it deactivates, so a point never scores a second time
\* (for another particle, in a later pass or substep, or on a later frame).
C1_PickupExactlyOnce ==
  [][pc = "collide" =>
       score' - score =
         Cardinality({k \in 1..Len(points) :
                        points[k].active /\ ~points'[k].active})]_vars

\* C2: immediately after Rope.update(target) returns, the head particle's
\* position is the target: neither the relaxation iterations nor the
\* integration loop moved it.
C2_HeadPinned == pc = "collide" => rope[1].position = target

C2_Witness ==
  /\ pc = "collide"
  /\ AllFinite
  /\ rope[1].position = target
  /\ target # Vec(ROPE_START_X, ROPE_START_Y)
  /\ rope[2].position # rope[2].old_position

\* C3: at the end of Enemy.update an enemy outside the arena rectangle has
\* been marked inactive by that call and an enemy inside or on the rectangle
\* is still active; after the frame's compaction no inactive enemy is left in
\* the collection.
OutsideArena(pos) ==
  /\ VFinite(pos)
  /\ (pos[1] < XMin \/ pos[1] > XMax \/ pos[2] < YMin \/ pos[2] > YMax)

InsideOrOnArena(pos) == VFinite(pos) /\ ~OutsideArena(pos)

C3_BoundaryCulling ==
  /\ pc = "integrate" =>
       \A j \in 1..Len(enemies) :
         /\ OutsideArena(enemies[j].particle.position) => ~enemies[j].active
         /\ InsideOrOnArena(enemies[j].particle.position) => enemies[j].active
  /\ pc \notin {"integrate", "compact"} =>
       \A j \in 1..Len(enemies) : enemies[j].active

C3_Witness ==
  /\ pc = "integrate"
  /\ \E j \in 1..Len(enemies) :
       OutsideArena(enemies[j].particle.position) /\ ~enemies[j].active
  /\ \E j \in 1..Len(enemies) :
       InsideOrOnArena(enemies[j].particle.position) /\ enemies[j].active

\* C4: in every frame each substep's Rope.update runs before that substep's
\* check_collisions, which runs before its check_enemy_collisions; every
\* substep's collision resolution runs before the enemies' seek movement,
\* and the seek movement before the compaction.
C4_FrameOrdering ==
  /\ ran.collide <= ran.rope
  /\ ran.enemy_collide <= ran.collide
  /\ ran.rope <= ran.enemy_collide + 1
  /\ ran.rope <= SUBSTEPS
  /\ ran.seek <= 1
  /\ ran.compact <= ran.seek
  /\ ran.seek > 0 => ran.enemy_collide = SUBSTEPS
  /\ pc \in {"frame_end", "done"} => ran.compact = 1

C4_Witness ==
  /\ pc = "frame_end"
  /\ frame > 1
  /\ ran.rope = SUBSTEPS
  /\ ran.collide = SUBSTEPS
  /\ ran.enemy_collide = SUBSTEPS
  /\ ran.seek = 1
  /\ ran.compact = 1

\* C5: the loop exits at the end of a frame if and only if game_over is true
\* there; once the flag is set it is never reset, no further frame starts,
\* and nothing runs after the exit.
C5_LoopTermination ==
  [][/\ pc = "frame_end" => ((pc' = "done") <=> game_over)
     /\ pc' = "done" => pc = "frame_end"
     /\ pc # "done"
     /\ game_over => game_over'
     /\ game_over => frame' = frame]_vars

C5_Witness == pc = "done" /\ game_over /\ frame < MaxFrames

\* C9: a check_collisions call sets game_over if and only if, for some rope
\* particle and enemy that overlapped, the particle's corrected position
\* equalled the head's position as snapshotted at the start of that pass
\* iteration; no other operation changes the flag.
C9_GameOverTrigger ==
  [][/\ pc = "collide" =>
          (game_over' <=> (game_over \/ <<TRUE, TRUE>> \in hits'))
     /\ pc # "collide" => game_over' = game_over]_vars

C9_Witness ==
  /\ pc = "enemy_collide"
  /\ game_over
  /\ <<TRUE, TRUE>> \in hits
  /\ <<FALSE, TRUE>> \in hits

\* C10: in every reachable state all particle positions are finite (a
\* zero-length vector is treated as "no correction needed").
C10_PositionsFinite == AllFinite

\* ------------------------------------------------ properties of SpecPair
RopeReach == (ROPE_BALL_RADIUS + ENEMY_RADIUS) * Scale
EnemyReach == ENEMY_RADIUS * 2 * Scale

\* Rounding allowance of the arithmetic, in grid units.
Tol == 3

\* Bodies at a and b have moved to a2 and b2: their centres are `reach`
\* apart and each has moved half the original overlap.
Separated(a, b, a2, b2, reach) ==
  LET d == Length(VSub(b, a))
  IN  /\ Near(Length(VSub(b2, a2)), reach, Tol)
      /\ Near(2 * Length(VSub(a2, a)), reach - d, 2 * Tol)
      /\ Near(2 * Length(VSub(b2, b)), reach - d, 2 * Tol)

\* Body a has stayed where it was and b has moved the whole overlap.
SeparatedPinned(a, b, a2, b2, reach) ==
  LET d == Length(VSub(b, a))
  IN  /\ Near(Length(VSub(b2, a2)), reach, Tol)
      /\ a2 = a
      /\ Near(Length(VSub(b2, b)), reach - d, Tol)

\* The rope particle the enemy overlaps.
Touched == CHOOSE k \in Touching(rope, enemies[1].particle.position) : TRUE

\* No rope particle but k has moved in the step.
OnlyMoved(k) == \A i \in 1..Len(rope) : i # k => rope'[i] = rope[i]

\* C6 as stated: one resolution pass leaves two overlapping bodies r1+r2
\* apart along the original axis, each moved half the overlap; when the rope
\* particle is the head, the head does not move and the enemy moves the
\* whole overlap.  (Stated up to the arithmetic's rounding.)
C6_SeparationPinnedHead ==
  [][/\ (pc = "pair" /\ OnlyMoved(Touched)) =>
          IF Touched = 1
          THEN SeparatedPinned(rope[1].position, enemies[1].particle.position,
                               rope'[1].position, enemies'[1].particle.position,
                               RopeReach)
          ELSE Separated(rope[Touched].position, enemies[1].particle.position,
                         rope'[Touched].position,
                         enemies'[1].particle.position, RopeReach)
     /\ pc = "enemy_pair" =>
          Separated(enemies[1].particle.position, enemies[2].particle.position,
                    enemies'[1].particle.position,
                    enemies'[2].particle.position, EnemyReach)]_vars

\* C6 amended: the same, with the head treated like every other rope
\* particle: it moves half the overlap away from the enemy, and so does the
\* enemy.
C6_SeparationSymmetric ==
  [][/\ (pc = "pair" /\ OnlyMoved(Touched)) =>
          Separated(rope[Touched].position, enemies[1].particle.position,
                    rope'[Touched].position, enemies'[1].particle.position,
                    RopeReach)
     /\ pc = "enemy_pair" =>
          Separated(enemies[1].particle.position, enemies[2].particle.position,
                    enemies'[1].particle.position,
                    enemies'[2].particle.position, EnemyReach)]_vars

C6_Witness ==
  /\ pc = "pair_done"
  /\ rope[1].position # PairRopeStart
  /\ \A i \in 2..Len(rope) : rope[i].position = rope[i].old_position
  /\ Near(Length(VSub(enemies[1].particle.position, rope[1].position)),
          RopeReach, Tol)

\* ----------------------------------------------- properties of SpecEnemy
\* ENEMY_SPEED * TIME_STEP, in grid units.
SeekUnits == TDiv(ENEMY_SPEED * TIME_STEP_NUM * Scale, TIME_STEP_DEN)

\* C7 as stated: each tick moves the enemy toward the target by
\* ENEMY_SPEED * TIME_STEP.
C7_AdvancePerTick ==
  (pc = "seek" /\ frame > 0) => Near(mark.adv, SeekUnits, Tol)

\* C7 amended: a tick is the seek step followed by two friction-damped
\* integrations of the velocity built up so far, so each tick moves the
\* enemy by more than twice ENEMY_SPEED * TIME_STEP, by no less than the
\* tick before, and by no more than ENEMY_SPEED * TIME_STEP / (1 - FRICTION).
C7_AdvanceAccumulates ==
  (pc = "seek" /\ frame > 0) =>
     /\ mark.adv >= 2 * SeekUnits
     /\ mark.adv >= mark.prev
     /\ mark.adv * (FRICTION_DEN - FRICTION_NUM) <= (SeekUnits + 1) * FRICTION_DEN

C7_Witness ==
  /\ pc = "seek"
  /\ frame = MaxTicks
  /\ mark.adv > mark.prev
  /\ mark.prev > 2 * SeekUnits

\* ----------------------------------------------- properties of SpecRelax
SegmentError(ps) ==
  Abs(Length(VSub(ps[2].position, ps[1].position)) - SEGMENT_LENGTH * Scale)

\* "a small epsilon": a tenth of a unit.
Epsilon == Scale \div 10

\* C8 as stated: CONSTRAINT_ITERATIONS iterations bring the segment length
\* to within Epsilon of SEGMENT_LENGTH, and the length error never grows.
C8_ConvergesInIterations ==
  [][pc = "relax" =>
       /\ SegmentError(rope') <= SegmentError(rope)
       /\ frame' = CONSTRAINT_ITERATIONS => SegmentError(rope') <= Epsilon]_vars

\* C8 amended: each iteration leaves the head where it is, never increases
\* the length error and multiplies it by 1 - 0.5 / SUBSTEPS (up to
\* rounding).
C8_ContractsPerIteration ==
  [][pc = "relax" =>
       /\ rope'[1] = rope[1]
       /\ SegmentError(rope') <= SegmentError(rope)
       /\ Near(2 * SUBSTEPS * SegmentError(rope'),
               (2 * SUBSTEPS - 1) * SegmentError(rope),
               2 * SUBSTEPS * Tol)]_vars

C8_Witness ==
  /\ pc = "relax"
  /\ frame = CONSTRAINT_ITERATIONS
  /\ SegmentError(rope) > Epsilon

====
